---- MODULE Spec2Model ----
(***************************************************************************)
(* Facial attendance system: the reference gallery, the recognition scan,  *)
(* the attendance ledger and the capture loop of src/attendance_system.py, *)
(* with the roster and attendance tables of src/scripts/database_setup.py. *)
(*                                                                         *)
(* Scores are correlation values in hundredths (0.6 is 60).  A face crop   *)
(* is represented by the score cv2.matchTemplate gives it against each     *)
(* enrolled person's canonical face.                                       *)
(***************************************************************************)
EXTENDS Integers, Sequences, FiniteSets, TLC

VARIABLES
    students,         \* the students table as the last fetch found it, in rowid order
    today,            \* the calendar day date.today() returns
    attendance,       \* the attendance table, rows in insertion order
    reference_faces,  \* per process: self.reference_faces, in dict order
    camera,           \* per process: state of self.camera
    pc,               \* per process: position in main() / run_attendance()
    faces,            \* per process: faces of the current frame not yet processed
    outcome,          \* per process: what recognize_face returned last
    call,             \* per process: the record_attendance call in progress or just ended
    stopCause,        \* per process: why the while loop was left
    key,              \* per process: the key of the last poll; r until its rebuild is done
    rebuilt,          \* per process: whether the reload just done found the roster as before
    crop,             \* recognition check: the input crop
    scanned,          \* recognition check: result of the scan, or NotRun
    boxes,            \* canonical-face check: the boxes detected in a photo
    largest_face      \* canonical-face check: the box chosen, or NotRun

vars == <<students, today, attendance, reference_faces, camera, pc, faces,
          outcome, call, stopCause, key, rebuilt, crop, scanned, boxes,
          largest_face>>

-----------------------------------------------------------------------------
(* Bounds *)

MaxDay == 2

MaxBoxes == 2

(* Program constants *)

Threshold == 60
InitialBest == 0

-----------------------------------------------------------------------------
(* Data *)

Ids == {"s1", "s2"}

None == "None"

PhotoKinds == {"null", "missing", "unreadable", "noface", "face"}

\* A row as database_setup.add_student leaves it: active, no photo path.
NewRow(sid) == [student_id |-> sid, active |-> TRUE, photo |-> "null"]

\* The states of a students row that a gallery build tells apart: an inactive
\* row is filtered out by the query whatever its photo, an active one is judged
\* by its photo.
RowStates(sid) ==
    {[student_id |-> sid, active |-> TRUE, photo |-> k] : k \in PhotoKinds}
    \cup {[student_id |-> sid, active |-> FALSE, photo |-> "face"]}

Procs == DOMAIN pc

RosterOrder == <<"s1", "s2">>

\* A crop is known by its comparison score against each person's canonical face.
Scores == {-30, 0, 59, 60, 61, 90}

AllCrops == [Ids -> Scores]

CropOf(sid) == [r \in Ids |-> IF r = sid THEN 90 ELSE 0]

Borderline == [r \in Ids |-> IF r = "s1" THEN 60 ELSE 59]

Unrelated == [r \in Ids |-> -30]

\* A face that scores the same, above the threshold, against everybody.
Twin == [r \in Ids |-> 90]

\* What detectMultiScale may return for a frame: no face, one face, or two.
Frames ==
    {<<>>, <<CropOf("s1")>>, <<CropOf("s2")>>, <<Borderline>>, <<Unrelated>>,
     <<CropOf("s1"), CropOf("s2")>>, <<CropOf("s1"), CropOf("s1")>>,
     <<Borderline, CropOf("s2")>>, <<Twin>>}

\* The students table at the time of a fetch; the rows keep their rowid order.
Rosters ==
    {r \in [DOMAIN RosterOrder -> UNION {RowStates(sid) : sid \in Ids}] :
        \A i \in DOMAIN RosterOrder : r[i].student_id = RosterOrder[i]}

-----------------------------------------------------------------------------
(* Reference gallery: load_reference_faces *)

\* What is stored per student: the id and the face region cut from the photo.
Entry(sid) == [student_id |-> sid, face_roi |-> sid]

Keys(gallery) == {gallery[i].student_id : i \in DOMAIN gallery}

IndexOf(gallery, sid) == CHOOSE i \in DOMAIN gallery : gallery[i].student_id = sid

\* Mutant: every assignment adds an entry at the end, present key or not.
DictPutAppend(gallery, sid, entry) == Append(gallery, entry)

\* self.reference_faces[student_id] = {...}: a present key keeps its place in the
\* dict and gets the new value, a new key goes last.
DictPut(gallery, sid, entry) ==
    IF sid \in Keys(gallery)
    THEN [gallery EXCEPT ![IndexOf(gallery, sid)] = entry]
    ELSE Append(gallery, entry)

\* SELECT ... FROM students WHERE active = TRUE AND photo_path IS NOT NULL
FetchStudents(rows) ==
    SelectSeq(rows, LAMBDA r : r.active /\ r.photo # "null")

\* The body of the for loop for one fetched row: the photo must exist, load,
\* and hold a face; any other row leaves the dict as it is.
LoadOne(gallery, row) ==
    IF row.photo = "missing" THEN gallery
    ELSE IF row.photo = "unreadable" THEN gallery
    ELSE IF row.photo = "noface" THEN gallery
    ELSE DictPut(gallery, row.student_id,
                 Entry(row.student_id))

\* Mutant: the loop is left at the first row that stores nothing.
RECURSIVE LoadRowsAbortOnFailure(_, _)
LoadRowsAbortOnFailure(gallery, rows) ==
    IF rows = <<>> THEN gallery
    ELSE IF Head(rows).photo # "face" THEN gallery
    ELSE LoadRowsAbortOnFailure(LoadOne(gallery, Head(rows)), Tail(rows))

RECURSIVE LoadRows(_, _)
LoadRows(gallery, rows) ==
    IF rows = <<>> THEN gallery
    ELSE LoadRows(LoadOne(gallery, Head(rows)), Tail(rows))

\* A detection box (x, y, w, h) of detectMultiScale on an enrollment photo.
\* The sides are such that boxes of different shape have the same area.
Boxes == [x : {0, 10}, y : {0}, w : {30, 40}, h : {30, 40}]

\* The value of largest_face before any photo has been looked at.
NoBox == [x |-> 0, y |-> 0, w |-> 0, h |-> 0]

\* key=lambda x: x[2] * x[3]
Area(box) == box.w * box.h

\* Mutant: of boxes with the same area the later one is kept.
RECURSIVE MaxByAreaKeepLater(_, _)
MaxByAreaKeepLater(best, rest) ==
    IF rest = <<>> THEN best
    ELSE MaxByAreaKeepLater(IF Area(Head(rest)) >= Area(best)
                            THEN Head(rest) ELSE best,
                            Tail(rest))

\* max(faces, key=...) as Python computes it: the running maximum is replaced
\* only by an element whose key is strictly greater.
RECURSIVE MaxByArea(_, _)
MaxByArea(best, rest) ==
    IF rest = <<>> THEN best
    ELSE MaxByArea(IF Area(Head(rest)) > Area(best) THEN Head(rest) ELSE best,
                   Tail(rest))

\* largest_face = max(faces, key=lambda x: x[2] * x[3]), for len(faces) > 0
LargestFace(detected) == MaxByArea(Head(detected), Tail(detected))

\* Mutant: every build starts from an empty dict.
LoadReferenceFacesCleared(gallery, rows) ==
    LoadRows(<<>>, FetchStudents(rows))

\* load_reference_faces starts from the dict as it stands: it is created once,
\* in __init__, and never cleared.
LoadReferenceFaces(gallery, rows) == LoadRows(gallery, FetchStudents(rows))

-----------------------------------------------------------------------------
(* Recognition engine: compare_faces, recognize_face *)

CompareFaces(face, ref) == face[ref]

\* Mutant: the threshold test admits a score equal to the threshold.
AtLeastThreshold(confidence) == confidence >= Threshold

ExceedsThreshold(confidence) == confidence > Threshold

\* Mutant: the scan stops at the first entry that beats the threshold.
RECURSIVE ScanGalleryEarlyExit(_, _, _)
ScanGalleryEarlyExit(gallery, face, best) ==
    IF gallery = <<>> \/ best.confidence > Threshold THEN best
    ELSE LET ref == Head(gallery)
             confidence == CompareFaces(face, ref.face_roi)
         IN  ScanGalleryEarlyExit(Tail(gallery), face,
                 IF confidence > best.confidence
                 THEN [student_id |-> ref.student_id, confidence |-> confidence]
                 ELSE best)

RECURSIVE ScanGallery(_, _, _)
ScanGallery(gallery, face, best) ==
    IF gallery = <<>> THEN best
    ELSE LET ref == Head(gallery)
             confidence == CompareFaces(face, ref.face_roi)
         IN  ScanGallery(Tail(gallery), face,
                 IF confidence > best.confidence
                 THEN [student_id |-> ref.student_id, confidence |-> confidence]
                 ELSE best)

\* Mutant: the running best starts at the threshold instead of 0.0.
RecognizeFaceFromThreshold(gallery, face) ==
    LET best == ScanGallery(gallery, face,
                    [student_id |-> None, confidence |-> Threshold])
    IN  IF ExceedsThreshold(best.confidence)
        THEN best
        ELSE [student_id |-> None, confidence |-> best.confidence]

RecognizeFace(gallery, face) ==
    LET best == ScanGallery(gallery, face,
                    [student_id |-> None, confidence |-> InitialBest])
    IN  IF ExceedsThreshold(best.confidence)
        THEN best
        ELSE [student_id |-> None, confidence |-> best.confidence]

-----------------------------------------------------------------------------
(* Attendance ledger: the attendance table and record_attendance *)

\* SELECT id FROM attendance WHERE student_id = ? AND class_date = ?
Matching(rows, sid, day) ==
    {i \in DOMAIN rows : rows[i].student_id = sid /\ rows[i].class_date = day}

\* Mutant: the existence check also counts the records of earlier days.
AlreadyRecordedUpToDay(rows, sid, day) ==
    \E i \in DOMAIN rows :
        rows[i].student_id = sid /\ rows[i].class_date <= day

\* Mutant: the existence check leaves the date out.
AlreadyRecordedAnyDay(rows, sid, day) ==
    \E i \in DOMAIN rows : rows[i].student_id = sid

AlreadyRecorded(rows, sid, day) == Matching(rows, sid, day) # {}

\* INSERT INTO attendance (...) VALUES (?, ?, ?, 'present', ?)
InsertRow(rows, sid, day, confidence) ==
    Append(rows, [student_id |-> sid, class_date |-> day,
                  status |-> "present", confidence |-> confidence])

NoCall == [student_id |-> None, class_date |-> 0, confidence |-> 0,
           fault |-> "none", ret |-> "none"]

NoOutcome == [student_id |-> None, confidence |-> 0]

\* if student_id: a returned id counts unless it is None or the empty string.
Truthy(sid) == sid # None /\ sid # ""

-----------------------------------------------------------------------------
(* Capture loop *)

Running(p) == pc[p] \in {"running", "faces", "recording", "poll"}

\* Mutant: the loop goes on to the key poll whatever is left of the frame.
AfterFaceSkipRest(rest) == "poll"

\* The for loop over the detected faces: the next face, or on to waitKey.
AfterFace(rest) == IF rest = <<>> THEN "poll" ELSE "faces"

\* Mutant: main goes on to the capture loop whatever the gallery holds.
AfterBuildUnchecked(g) == "ready"

\* main() after the constructor: with no reference face it says so and returns.
AfterBuild(g) == IF Len(g) = 0 THEN "refused" ELSE "ready"

\* main(): AttendanceSystem() runs the first load_reference_faces, whose
\* sqlite calls are not guarded.
Construct(p) ==
    /\ pc[p] = "main"
    /\ \E rosterUp \in BOOLEAN :
         IF rosterUp
         THEN \E found \in Rosters :
                LET g == LoadReferenceFaces(reference_faces[p], found)
                IN  /\ students' = found
                    /\ reference_faces' = [reference_faces EXCEPT ![p] = g]
                    /\ pc' = [pc EXCEPT ![p] = AfterBuild(g)]
                    /\ UNCHANGED stopCause
         ELSE /\ pc' = [pc EXCEPT ![p] = "crashed"]
              /\ stopCause' = [stopCause EXCEPT ![p] = "exception"]
              /\ UNCHANGED <<students, reference_faces>>
    /\ UNCHANGED <<today, attendance, camera, faces, outcome, call, key,
                   rebuilt, crop, scanned, boxes, largest_face>>

\* Mutant: run_attendance ignores what start_camera returned.
AfterStartUnchecked(opened) == "running"

\* if not self.start_camera(): return
AfterStart(opened) == IF opened THEN "running" ELSE "returned"

\* run_attendance() up to the loop: start_camera.
StartCamera(p) ==
    /\ pc[p] = "ready"
    /\ \E opened \in BOOLEAN :
         /\ camera' = [camera EXCEPT ![p] = IF opened THEN "open" ELSE "unopened"]
         /\ pc' = [pc EXCEPT ![p] = AfterStart(opened)]
    /\ UNCHANGED <<students, today, attendance, reference_faces, faces,
                   outcome, call, stopCause, key, rebuilt, crop, scanned,
                   boxes, largest_face>>

\* self.camera.read() and detectMultiScale on the frame.
ReadFrame(p) ==
    /\ pc[p] = "running"
    /\ \E ret \in BOOLEAN :
         IF ret
         THEN \E detected \in Frames :
                /\ faces' = [faces EXCEPT ![p] = detected]
                /\ pc' = [pc EXCEPT ![p] = AfterFace(detected)]
                /\ UNCHANGED stopCause
         ELSE /\ pc' = [pc EXCEPT ![p] = "cleanup"]
              /\ stopCause' = [stopCause EXCEPT ![p] = "read_failed"]
              /\ UNCHANGED faces
    /\ outcome' = [outcome EXCEPT ![p] = NoOutcome]
    /\ call' = [call EXCEPT ![p] = NoCall]
    /\ rebuilt' = [rebuilt EXCEPT ![p] = "none"]
    /\ UNCHANGED <<students, today, attendance, reference_faces, camera, key,
                   crop, scanned, boxes, largest_face>>

\* One pass of the for loop: recognize_face, then for a recognised student
\* record_attendance up to its existence check.  connect and the SELECT are
\* outside the try block, so their failure leaves run_attendance by exception.
ProcessFace(p) ==
    /\ pc[p] = "faces"
    /\ LET face == Head(faces[p])
           rest == Tail(faces[p])
           out  == RecognizeFace(reference_faces[p], face)
           this == [student_id |-> out.student_id, class_date |-> today,
                    confidence |-> out.confidence, fault |-> "none", ret |-> "none"]
       IN  /\ outcome' = [outcome EXCEPT ![p] = out]
           /\ faces' = [faces EXCEPT ![p] = rest]
           /\ IF Truthy(out.student_id)
              THEN \E fault \in {"none", "connect", "select"} :
                     IF fault # "none"
                     THEN /\ call' = [call EXCEPT ![p] =
                                        [this EXCEPT !.fault = fault, !.ret = "raised"]]
                          /\ pc' = [pc EXCEPT ![p] = "crashed"]
                          /\ stopCause' = [stopCause EXCEPT ![p] = "exception"]
                     ELSE IF AlreadyRecorded(attendance, out.student_id, today)
                     THEN /\ call' = [call EXCEPT ![p] = [this EXCEPT !.ret = "False"]]
                          /\ pc' = [pc EXCEPT ![p] = AfterFace(rest)]
                          /\ UNCHANGED stopCause
                     ELSE /\ call' = [call EXCEPT ![p] = this]
                          /\ pc' = [pc EXCEPT ![p] = "recording"]
                          /\ UNCHANGED stopCause
              ELSE /\ call' = [call EXCEPT ![p] = NoCall]
                   /\ pc' = [pc EXCEPT ![p] = AfterFace(rest)]
                   /\ UNCHANGED stopCause
    /\ UNCHANGED <<students, today, attendance, reference_faces, camera, key,
                   rebuilt, crop, scanned, boxes, largest_face>>

\* The try block of record_attendance: INSERT, commit, the name lookup, and
\* the return.  A failure of the INSERT or the commit leaves the table as it
\* was; a failure of the lookup comes after the commit.
RecordInsert(p) ==
    /\ pc[p] = "recording"
    /\ \E fault \in {"none", "insert", "commit", "lookup"} :
         /\ attendance' =
              IF fault \in {"none", "lookup"}
              THEN InsertRow(attendance, call[p].student_id, call[p].class_date,
                             call[p].confidence)
              ELSE attendance
         /\ call' = [call EXCEPT ![p].fault = fault,
                                 ![p].ret = IF fault = "none" THEN "True" ELSE "False"]
    /\ pc' = [pc EXCEPT ![p] = AfterFace(faces[p])]
    /\ UNCHANGED <<students, today, reference_faces, camera, faces, outcome,
                   stopCause, key, rebuilt, crop, scanned, boxes,
                   largest_face>>

\* Mutant: the rebuild is handed off and the loop goes on reading frames.
AfterKeyDetached(k) ==
    IF k = "q" THEN "cleanup" ELSE "running"

\* Mutant: the quit key is not acted on.
AfterKeyIgnoresQuit(k) ==
    IF k = "r" THEN "reloading" ELSE "running"

\* if key == ord('q'): break / elif key == ord('r'): load_reference_faces()
AfterKey(k) ==
    IF k = "q" THEN "cleanup"
    ELSE IF k = "r" THEN "reloading"
    ELSE "running"

\* cv2.waitKey(1): q leaves the loop, r calls load_reference_faces, anything
\* else goes on to the next frame.
PollKey(p) ==
    /\ pc[p] = "poll"
    /\ \E k \in {"none", "q", "r"} :
         /\ key' = [key EXCEPT ![p] = k]
         /\ pc' = [pc EXCEPT ![p] = AfterKey(k)]
         /\ stopCause' = [stopCause EXCEPT ![p] = IF k = "q" THEN "quit" ELSE @]
    /\ outcome' = [outcome EXCEPT ![p] = NoOutcome]
    /\ call' = [call EXCEPT ![p] = NoCall]
    /\ UNCHANGED <<students, today, attendance, reference_faces, camera,
                   faces, rebuilt, crop, scanned, boxes, largest_face>>

\* The load_reference_faces call that key r started, from its fetch (unguarded
\* sqlite calls again) to its return into the loop.
Reload(p) ==
    /\ key[p] = "r"
    /\ \E rosterUp \in BOOLEAN :
         IF rosterUp
         THEN \E found \in Rosters :
                /\ students' = found
                /\ rebuilt' = [rebuilt EXCEPT ![p] =
                       IF found = students THEN "same" ELSE "changed"]
                /\ reference_faces' = [reference_faces EXCEPT ![p] =
                       LoadReferenceFaces(reference_faces[p], found)]
                /\ pc' = [pc EXCEPT ![p] = "running"]
                /\ UNCHANGED stopCause
         ELSE /\ pc' = [pc EXCEPT ![p] = "crashed"]
              /\ stopCause' = [stopCause EXCEPT ![p] = "exception"]
              /\ UNCHANGED <<students, reference_faces, rebuilt>>
    /\ key' = [key EXCEPT ![p] = "none"]
    /\ UNCHANGED <<today, attendance, camera, faces, outcome, call, crop,
                   scanned, boxes, largest_face>>

\* After the loop: self.camera.release().
Cleanup(p) ==
    /\ pc[p] = "cleanup"
    /\ camera' = [camera EXCEPT ![p] = "released"]
    /\ pc' = [pc EXCEPT ![p] = "stopped"]
    /\ UNCHANGED <<students, today, attendance, reference_faces, faces,
                   outcome, call, stopCause, key, rebuilt, crop, scanned,
                   boxes, largest_face>>

-----------------------------------------------------------------------------
(* Environment: days pass.  The roster is edited from outside between fetches:
   each fetch finds some roster of Rosters. *)

Midnight ==
    /\ today < MaxDay
    /\ today' = today + 1
    /\ UNCHANGED <<students, attendance, reference_faces, camera, pc, faces,
                   outcome, call, stopCause, key, rebuilt, crop, scanned,
                   boxes, largest_face>>

-----------------------------------------------------------------------------
(* Specifications *)

NotRun == [student_id |-> "NotRun", confidence |-> 0]

InitProcs(procs) ==
    /\ students = [i \in DOMAIN RosterOrder |-> NewRow(RosterOrder[i])]
    /\ today = 1
    /\ attendance = <<>>
    /\ reference_faces = [p \in procs |-> <<>>]
    /\ camera = [p \in procs |-> "none"]
    /\ pc = [p \in procs |-> "main"]
    /\ faces = [p \in procs |-> <<>>]
    /\ outcome = [p \in procs |-> NoOutcome]
    /\ call = [p \in procs |-> NoCall]
    /\ stopCause = [p \in procs |-> "none"]
    /\ key = [p \in procs |-> "none"]
    /\ rebuilt = [p \in procs |-> "none"]
    /\ crop = Unrelated
    /\ scanned = NotRun
    /\ boxes = <<>>
    /\ largest_face = NoBox

Init == InitProcs({1})

Next ==
    \/ \E p \in Procs : Construct(p)
    \/ \E p \in Procs : StartCamera(p)
    \/ \E p \in Procs : ReadFrame(p)
    \/ \E p \in Procs : ProcessFace(p)
    \/ \E p \in Procs : RecordInsert(p)
    \/ \E p \in Procs : PollKey(p)
    \/ \E p \in Procs : Reload(p)
    \/ \E p \in Procs : Cleanup(p)
    \/ Midnight

Spec == Init /\ [][Next]_vars

\* Two capture processes, each its own AttendanceSystem, on the same database.
InitTwo == InitProcs({1, 2})

\* Both students enrolled with a usable photo.
Enrolled == [i \in DOMAIN RosterOrder |->
               [student_id |-> RosterOrder[i], active |-> TRUE, photo |-> "face"]]

\* The processes work within one day, on frames of at most one face, and the
\* roster stays as first fetched or as enrolled.
NextTwo ==
    \/ \E p \in Procs : Construct(p) /\ students' \in {students, Enrolled}
    \/ \E p \in Procs : StartCamera(p)
    \/ \E p \in Procs : ReadFrame(p) /\ Len(faces'[p]) <= 1
    \/ \E p \in Procs : ProcessFace(p)
    \/ \E p \in Procs : RecordInsert(p)
    \/ \E p \in Procs : PollKey(p)
    \/ \E p \in Procs : Reload(p) /\ students' = students
    \/ \E p \in Procs : Cleanup(p)

SpecTwo == InitTwo /\ [][NextTwo]_vars

\* recognize_face alone, on every gallery and every crop.
SeqsUpTo(S, n) == UNION {[1..k -> S] : k \in 0..n}

Galleries ==
    {g \in SeqsUpTo({Entry(sid) : sid \in Ids}, Cardinality(Ids)) :
        \A i, j \in DOMAIN g : i # j => g[i] # g[j]}

InitRecognize ==
    /\ students = [i \in DOMAIN RosterOrder |-> NewRow(RosterOrder[i])]
    /\ today = 1
    /\ attendance = <<>>
    /\ reference_faces \in [{1} -> Galleries]
    /\ camera = [p \in {1} |-> "none"]
    /\ pc = [p \in {1} |-> "ready"]
    /\ faces = [p \in {1} |-> <<>>]
    /\ outcome = [p \in {1} |-> NoOutcome]
    /\ call = [p \in {1} |-> NoCall]
    /\ stopCause = [p \in {1} |-> "none"]
    /\ key = [p \in {1} |-> "none"]
    /\ rebuilt = [p \in {1} |-> "none"]
    /\ crop \in AllCrops
    /\ scanned = NotRun
    /\ boxes = <<>>
    /\ largest_face = NoBox

Recognize ==
    /\ scanned = NotRun
    /\ boxes = <<>>
    /\ largest_face = NoBox
    /\ scanned' = RecognizeFace(reference_faces[1], crop)
    /\ UNCHANGED <<students, today, attendance, reference_faces, camera, pc,
                   faces, outcome, call, stopCause, key, rebuilt, crop,
                   boxes, largest_face>>

NextRecognize == Recognize

SpecRecognize == InitRecognize /\ [][NextRecognize]_vars

\* The choice of the canonical face, over every detection result of a photo.
InitLargest ==
    /\ students = [i \in DOMAIN RosterOrder |-> NewRow(RosterOrder[i])]
    /\ today = 1
    /\ attendance = <<>>
    /\ reference_faces = [p \in {1} |-> <<>>]
    /\ camera = [p \in {1} |-> "none"]
    /\ pc = [p \in {1} |-> "main"]
    /\ faces = [p \in {1} |-> <<>>]
    /\ outcome = [p \in {1} |-> NoOutcome]
    /\ call = [p \in {1} |-> NoCall]
    /\ stopCause = [p \in {1} |-> "none"]
    /\ key = [p \in {1} |-> "none"]
    /\ rebuilt = [p \in {1} |-> "none"]
    /\ crop = Unrelated
    /\ scanned = NotRun
    /\ boxes \in SeqsUpTo(Boxes, MaxBoxes)
    /\ largest_face = NoBox

\* if len(faces) > 0: largest_face = max(...)
ChooseLargest ==
    /\ largest_face = NoBox
    /\ Len(boxes) > 0
    /\ largest_face' = LargestFace(boxes)
    /\ UNCHANGED <<students, today, attendance, reference_faces, camera, pc,
                   faces, outcome, call, stopCause, key, rebuilt, crop,
                   scanned, boxes>>

NextLargest == ChooseLargest

SpecLargest == InitLargest /\ [][NextLargest]_vars

-----------------------------------------------------------------------------
(* Properties *)

Count(sid, day) == Cardinality(Matching(attendance, sid, day))

\* The step in which a record_attendance call of p returns True or False.
Returns(p) ==
    /\ \/ pc[p] = "faces" /\ faces'[p] # faces[p]
       \/ pc[p] = "recording" /\ pc'[p] # "recording"
    /\ call'[p].ret \in {"True", "False"}

\* C1: with one capture loop, a record_attendance call that meets no store
\* failure returns True exactly when no record existed for its (student, day),
\* then adding that one row; otherwise it returns False and leaves the table as
\* it was; either way exactly one record exists for the pair afterwards.
RecordIsIdempotentPerDay ==
    [][\A p \in Procs :
         (Returns(p) /\ call'[p].fault = "none") =>
            LET c == call'[p]
                absent == Matching(attendance, c.student_id, c.class_date) = {}
            IN  /\ (c.ret = "True") <=> absent
                /\ c.ret = "True" =>
                     attendance' = InsertRow(attendance, c.student_id,
                                             c.class_date, c.confidence)
                /\ c.ret = "False" => attendance' = attendance
                /\ Cardinality(Matching(attendance', c.student_id, c.class_date)) = 1
      ]_vars

\* A second call for the same student and day has come back False, one record stands.
SecondCallRejected ==
    \E p \in Procs :
        /\ call[p].ret = "False"
        /\ call[p].fault = "none"
        /\ Count(call[p].student_id, call[p].class_date) = 1

\* C2: the attendance table never holds two records for the same student and
\* day, two capture processes interleaving their check and insert included.
AtMostOneRecordPerStudentDay ==
    \A sid \in Ids, day \in 1..MaxDay : Count(sid, day) <= 1

\* C3: a store failure at any step of record_attendance comes back to the loop
\* as a failure value, never as an exception, and the loop stays in Running.
StoreFailureIsReturned ==
    \A p \in Procs :
        call[p].fault # "none" => (call[p].ret = "False" /\ Running(p))

\* C4: a loop that has been Running is out of Running only after a quit command
\* or a failed frame read.
LoopEndsOnlyByQuitOrReadFailure ==
    \A p \in Procs :
        (camera[p] # "none" /\ pc[p] \in {"cleanup", "stopped", "crashed"})
            => stopCause[p] \in {"quit", "read_failed"}

ValidIds(rows) ==
    {rows[i].student_id :
        i \in {j \in DOMAIN rows : rows[j].active /\ rows[j].photo = "face"}}

\* C5: after every completed build the gallery holds exactly one entry for each
\* student who was active with a usable photo at that build, and no other.
GalleryMatchesRoster ==
    \A p \in Procs :
        /\ Keys(reference_faces[p]) = ValidIds(students)
        /\ Len(reference_faces[p]) = Cardinality(ValidIds(students))

\* C6: a capture loop that acquired the camera and has ended, by whatever path,
\* has released the camera.
CameraReleasedAtEnd ==
    \A p \in Procs :
        pc[p] \in {"stopped", "crashed", "returned", "refused"}
            => camera[p] # "open"

ScoresSeen == {CompareFaces(crop, reference_faces[1][i].face_roi) :
                 i \in DOMAIN reference_faces[1]}

MaxOf(S) == CHOOSE m \in S : \A x \in S : x <= m

\* C7: recognize_face returns a student exactly when the highest score over
\* the whole gallery is strictly above 0.6, and then a student whose entry has
\* that highest score; otherwise it returns None.
RecognizesIffMaxAboveThreshold ==
    scanned # NotRun =>
        /\ (scanned.student_id # None)
             <=> (ScoresSeen # {} /\ MaxOf(ScoresSeen) > Threshold)
        /\ scanned.student_id # None =>
             /\ scanned.student_id \in Keys(reference_faces[1])
             /\ CompareFaces(crop, scanned.student_id) = MaxOf(ScoresSeen)
             /\ scanned.confidence = MaxOf(ScoresSeen)

\* The best entry is the last of a two-entry gallery and is the one returned.
LastEntryRecognized ==
    /\ scanned # NotRun
    /\ Len(reference_faces[1]) = 2
    /\ scanned.student_id = reference_faces[1][2].student_id
    /\ CompareFaces(crop, reference_faces[1][1].face_roi) = 61

\* C8: for a non-empty gallery the confidence recognize_face returns is the
\* highest score over the gallery, negative scores included.
ConfidenceIsHighestScore ==
    (scanned # NotRun /\ reference_faces[1] # <<>>)
        => scanned.confidence = MaxOf(ScoresSeen)

\* C9: the loop is never Running, the camera never opened and no frame taken
\* with an empty gallery; a first build that loads nothing makes main return.
NoCaptureWithEmptyGallery ==
    \A p \in Procs :
        /\ reference_faces[p] = <<>> =>
             /\ pc[p] \in {"main", "refused", "crashed"}
             /\ camera[p] = "none"
             /\ faces[p] = <<>>
        /\ pc[p] = "refused" => reference_faces[p] = <<>>

\* main has returned on an empty gallery.
RefusedOnEmptyGallery ==
    \E p \in Procs : pc[p] = "refused" /\ camera[p] = "none"

\* C10: the loop calls record_attendance for a face exactly when recognize_face
\* returned a student for it, with that student and confidence, and every
\* record written carries a confidence strictly above 0.6.
RecordsOnlyRecognizedFaces ==
    /\ \A p \in Procs :
         /\ (call[p] # NoCall) <=> (outcome[p].student_id # None)
         /\ call[p] # NoCall =>
              /\ call[p].student_id = outcome[p].student_id
              /\ call[p].confidence = outcome[p].confidence
              /\ call[p].confidence > Threshold
    /\ \A i \in DOMAIN attendance : attendance[i].confidence > Threshold

\* A face scoring exactly 0.6 was classified unknown and caused no call, while
\* recognised faces have been recorded.
BorderlineFaceNotRecorded ==
    \E p \in Procs :
        /\ pc[p] \in {"faces", "poll"}
        /\ outcome[p] = [student_id |-> None, confidence |-> Threshold]
        /\ call[p] = NoCall
        /\ attendance # <<>>

\* C11: a student whose photo held no detectable face at the most recent build
\* is not returned by recognize_face, and no record_attendance call is made
\* for that student, until the next build.
NoFaceStudentNeverRecognized ==
    \A p \in Procs : \A i \in DOMAIN students :
        (students[i].active /\ students[i].photo = "noface") =>
            /\ outcome[p].student_id # students[i].student_id
            /\ call[p].student_id # students[i].student_id

\* C12: with an empty gallery recognize_face returns None with confidence 0.
EmptyGalleryGivesUnknownZero ==
    (scanned # NotRun /\ reference_faces[1] = <<>>)
        => scanned = [student_id |-> None, confidence |-> 0]

\* The scan has run on an empty gallery, for a crop that matches s1's face.
EmptyGalleryScanned ==
    /\ scanned # NotRun
    /\ reference_faces[1] = <<>>
    /\ crop["s1"] > Threshold

\* C13: a load_reference_faces run that follows another one and finds the
\* roster and the photos as the earlier run found them leaves the gallery as
\* it was: the same ids, the same entries, in the same order.
RebuildOnSameRosterKeepsGallery ==
    [][\A p \in Procs :
          (key[p] = "r" /\ pc'[p] = "running" /\ students' = students)
              => reference_faces'[p] = reference_faces[p]]_vars

RebuiltOnSameRoster ==
    \E p \in Procs :
        /\ rebuilt[p] = "same"
        /\ Len(reference_faces[p]) = 2

\* C14: a row whose photo is missing, unreadable or without a face does not
\* stop load_reference_faces: when the build has returned, every valid student
\* of the fetched roster has an entry, those listed after a failing row too.
FailedRowDoesNotAbortBuild ==
    \A p \in Procs :
        pc[p] \in {"refused", "ready", "returned", "running"}
            => ValidIds(students) \subseteq Keys(reference_faces[p])

ValidRowAfterFailedRow ==
    \E p \in Procs :
        /\ pc[p] \in {"ready", "running"}
        /\ students[1].active
        /\ students[1].photo \in {"missing", "unreadable", "noface"}
        /\ students[2].student_id \in ValidIds(students)
        /\ Keys(reference_faces[p]) = {students[2].student_id}

\* The ids whose entries attain the highest score of the gallery for a face.
TiedBest(gallery, face) ==
    {sid \in Keys(gallery) :
        \A other \in Keys(gallery) :
            CompareFaces(face, other) <= CompareFaces(face, sid)}

\* Of some ids, the one whose row comes first in a roster.
FirstInRoster(rows, ids) ==
    LET i == CHOOSE k \in DOMAIN rows :
                 /\ rows[k].student_id \in ids
                 /\ \A j \in 1..(k - 1) : rows[j].student_id \notin ids
    IN  rows[i].student_id

\* C15: when several entries that the last build stored attain the same
\* highest score above the threshold, recognize_face returns the one whose row
\* came first in the roster of that build.
TieGoesToFirstOfLastBuild ==
    [][\A p \in Procs :
          (pc[p] = "faces" /\ faces'[p] # faces[p]) =>
              LET face == Head(faces[p])
                  tied == TiedBest(reference_faces[p], face)
              IN  (/\ Cardinality(tied) > 1
                   /\ tied \subseteq ValidIds(students)
                   /\ \E sid \in tied : CompareFaces(face, sid) > Threshold)
                      => outcome'[p].student_id = FirstInRoster(students, tied)]_vars

OneFrameAtATime ==
    [][\A p \in Procs :
          faces'[p] # faces[p] =>
              \/ /\ pc[p] = "running"
                 /\ faces[p] = <<>>
                 /\ call[p] = NoCall
              \/ /\ pc[p] = "faces"
                 /\ faces'[p] = Tail(faces[p])
                 /\ outcome'[p] = RecognizeFace(reference_faces[p],
                                                Head(faces[p]))]_vars

SecondFaceWaitsForFirstRecord ==
    \E p \in Procs :
        /\ pc[p] = "faces"
        /\ Len(faces[p]) = 1
        /\ Truthy(outcome[p].student_id)
        /\ call[p].ret = "True"

\* C18: cv2.waitKey is reached once for each frame that was read, when none of
\* its faces is left; the next read comes only after that poll (and after the
\* rebuild, for r); after q no frame is read; and a key is taken or acted on
\* only at the poll, never while faces of the frame are pending.
PolledOncePerFrameAfterFaces ==
    [][\A p \in Procs :
          /\ (pc'[p] = "poll" /\ pc[p] # "poll") =>
                 /\ pc[p] \in {"running", "faces", "recording"}
                 /\ faces'[p] = <<>>
          /\ (pc[p] = "poll" /\ pc'[p] # "poll") =>
                 /\ pc'[p] \in {"running", "reloading", "cleanup"}
                 /\ pc'[p] = "cleanup" <=> key'[p] = "q"
                 /\ faces[p] = <<>>
          /\ (pc'[p] = "running" /\ pc[p] # "running") =>
                 pc[p] \in {"ready", "poll", "reloading"}
          /\ (pc[p] = "running" /\ pc'[p] # "running") =>
                 pc'[p] \in {"faces", "poll", "cleanup"}
          /\ key'[p] # key[p] => (pc[p] = "poll" \/ key[p] = "r")
          /\ key[p] = "q" =>
                 /\ faces'[p] = faces[p]
                 /\ pc'[p] \in {"cleanup", "stopped"}]_vars

QuitTakenAfterFrame ==
    \E p \in Procs :
        /\ key[p] = "q"
        /\ pc[p] = "cleanup"
        /\ Len(attendance) = 2

\* C19: when the camera cannot be opened, run_attendance returns without an
\* exception: the loop is never entered, no frame is read, and neither the
\* gallery nor the attendance table is written by the failed start or after it.
UnopenedCameraReturnsQuietly ==
    [][\A p \in Procs :
          camera'[p] = "unopened" =>
              /\ pc'[p] = "returned"
              /\ stopCause'[p] = "none"
              /\ faces'[p] = <<>>
              /\ reference_faces'[p] = reference_faces[p]
              /\ attendance' = attendance]_vars

CameraFailedToOpen ==
    \E p \in Procs :
        /\ camera[p] = "unopened"
        /\ pc[p] = "returned"
        /\ reference_faces[p] # <<>>

\* C20: of the boxes detected in an enrollment photo the one chosen has the
\* largest width x height, and every box before it in detection order has a
\* strictly smaller area: of equal largest boxes it is the first.
LargestFaceIsFirstOfLargestArea ==
    largest_face # NoBox =>
        \E i \in DOMAIN boxes :
            /\ largest_face = boxes[i]
            /\ \A j \in DOMAIN boxes : Area(boxes[j]) <= Area(boxes[i])
            /\ \A j \in 1..(i - 1) : Area(boxes[j]) < Area(boxes[i])

FirstOfTwoEqualAreasChosen ==
    /\ Len(boxes) = 2
    /\ Area(boxes[1]) = Area(boxes[2])
    /\ boxes[1].w # boxes[2].w
    /\ largest_face = boxes[1]

\* C21: record_attendance returns True exactly when the call added a record:
\* a True call appended its row, a False call, whatever made it False, left
\* the attendance table as it was before the call.
TrueIffRecordAdded ==
    [][\A p \in Procs :
          Returns(p) =>
              LET c == call'[p]
              IN  /\ c.ret = "True" =>
                       attendance' = InsertRow(attendance, c.student_id,
                                               c.class_date, c.confidence)
                  /\ c.ret = "False" => attendance' = attendance]_vars

\* C22: no step takes an identity out of the gallery, a reload least of all:
\* each id present before is present after, so a loop that started with an
\* entry has one at every frame, poll and rebuild.
GalleryNeverShrinks ==
    [][\A p \in Procs :
          /\ Keys(reference_faces[p]) \subseteq Keys(reference_faces'[p])
          /\ (Running(p) \/ pc[p] = "reloading") =>
                 (pc'[p] \in {"running", "faces", "recording", "poll",
                              "reloading"}
                     => reference_faces'[p] # <<>>)]_vars

ReloadKeptDroppedStudents ==
    \E p \in Procs :
        /\ rebuilt[p] = "changed"
        /\ pc[p] = "running"
        /\ ValidIds(students) = {}
        /\ Len(reference_faces[p]) = 2

\* C23: the existence check looks at the day of the call only: a call that
\* meets no store failure and finds no record of its student for its day
\* returns True and adds the record, whatever the student has for other days;
\* and no step changes or removes a record that is in the table.
DuplicateCheckIsPerDay ==
    [][/\ Len(attendance') >= Len(attendance)
       /\ \A i \in DOMAIN attendance : attendance'[i] = attendance[i]
       /\ \A p \in Procs :
            LET c == call'[p]
            IN  (/\ Returns(p)
                 /\ c.fault = "none"
                 /\ Matching(attendance, c.student_id, c.class_date) = {})
                    => /\ c.ret = "True"
                       /\ attendance' = InsertRow(attendance, c.student_id,
                                                  c.class_date, c.confidence)
      ]_vars

RecordedAgainOnNextDay ==
    \E p \in Procs :
        /\ call[p].ret = "True"
        /\ call[p].class_date = 2
        /\ Count(call[p].student_id, 1) = 1
        /\ Count(call[p].student_id, 2) = 1

====
